---- MODULE Spec2Model ----
(***************************************************************************)
(* playbase: a GitHub repository used as a JSON document store for a game  *)
(* leaderboard.  Two serverless handlers write to it:                      *)
(*   save-reaction-score  (src/unnamed/part_001, lines 181-417)            *)
(*   season-reset         (src/unnamed/part_001, lines 1-179)              *)
(* The store is the GitHub contents API: a read returns the content and    *)
(* its blob sha, a PUT carries the sha of the blob it replaces.            *)
(***************************************************************************)
EXTENDS Integers, Sequences, FiniteSets, TLC

VARIABLES
    top,        \* reaction/top.json        (a document, or Missing)
    latest,     \* reaction/latest.json     (a document, or Missing)
    archive,    \* reaction/archive/season-<n>.json, one per season n
    now,        \* wall clock, in hours since 2025-01-15T00:00:00Z
    sub,        \* one record per invocation of save-reaction-score
    rot         \* one record per invocation of season-reset

vars == <<top, latest, archive, now, sub, rot>>

-----------------------------------------------------------------------------
(* Bounds of the model *)

\* number of concurrent invocations of save-reaction-score
NumSubmit == 2
\* number of concurrent invocations of season-reset
NumRotate == 1
\* number of season-long clock advances
MaxTicks == 1
\* number of times the caller invokes season-reset again after it returned
MaxRetries == 1

Submitters == 1..NumSubmit
Rotators == (NumSubmit + 1)..(NumSubmit + NumRotate)

-----------------------------------------------------------------------------
(* Program constants *)

\* .slice(0, 10)
Capacity == 10
\* ms < 80
MinMs == 80
\* ms > 1000
MaxMs == 1000
\* Math.floor(daysSinceStart / 90)
SeasonDays == 90
\* (1000 * 60 * 60 * 24), with the clock counted in hours
HoursPerDay == 24

SeasonHours == SeasonDays * HoursPerDay
Seasons == 1..(MaxTicks + 2)

\* a season count that rounds the days elapsed to the nearest day
CurrentSeasonRounded(t) ==
    (((t + HoursPerDay \div 2) \div HoursPerDay) \div SeasonDays) + 1

\* const daysSinceStart = Math.floor((now - seasonStart) / day);
\* const currentSeason = Math.floor(daysSinceStart / 90) + 1;
CurrentSeason(t) == ((t \div HoursPerDay) \div SeasonDays) + 1

-----------------------------------------------------------------------------
(* JSON values *)

Missing == [missing |-> TRUE]
Null == [null |-> TRUE]
\* JSON null of response.position: `position || null` maps 0 to null
NoPosition == 0
NoSha == [nosha |-> TRUE]

\* the blob sha names the content exactly; the model uses the content itself
ShaOf(doc) == doc

\* newScore = { ms, timestamp, id, playerName, playerId, season }
\* playerName and playerId are copied from the request and never read again;
\* the timestamp of an invocation is the invocation's own instant, here its
\* number (stored documents of Init carry instant 0).
NewScore(ms, ts, id, season) ==
    [ms |-> ms, timestamp |-> ts, id |-> id, season |-> season]

-----------------------------------------------------------------------------
(* The leaderboard merge: [...currentTop, newScore].sort(by ms).slice(0, 10) *)

\* a sort that puts an element before the elements it ties with
RECURSIVE InsertBeforeTies(_, _)
InsertBeforeTies(sorted, e) ==
    IF sorted = <<>> THEN <<e>>
    ELSE IF Head(sorted).ms < e.ms
         THEN <<Head(sorted)>> \o InsertBeforeTies(Tail(sorted), e)
         ELSE <<e>> \o sorted

\* one step of a stable sort: e goes after every element that does not
\* compare greater (comparator a.ms - b.ms <= 0 keeps the earlier one first)
RECURSIVE InsertStable(_, _)
InsertStable(sorted, e) ==
    IF sorted = <<>> THEN <<e>>
    ELSE IF Head(sorted).ms <= e.ms
         THEN <<Head(sorted)>> \o InsertStable(Tail(sorted), e)
         ELSE <<e>> \o sorted

RECURSIVE SortFrom(_, _)
SortFrom(acc, s) ==
    IF s = <<>> THEN acc ELSE SortFrom(InsertStable(acc, Head(s)), Tail(s))

\* a merge that forgets to sort
SortByMsNothing(s) == s

\* Array.prototype.sort((a, b) => a.ms - b.ms), a stable sort
SortByMs(s) == SortFrom(<<>>, s)

\* a merge that forgets to truncate
SliceNothing(s, n) == s

\* a merge that keeps the last n, as slice(-n) does
SliceLast(s, n) == IF Len(s) <= n THEN s ELSE SubSeq(s, Len(s) - n + 1, Len(s))

\* Array.prototype.slice(0, n)
Slice(s, n) == IF Len(s) <= n THEN s ELSE SubSeq(s, 1, n)

\* a merge that truncates before it sorts
UpdatedTopSliceFirst(currentTop, newScore) ==
    SortByMs(Slice(Append(currentTop, newScore), Capacity))

UpdatedTop(currentTop, newScore) ==
    Slice(SortByMs(Append(currentTop, newScore)), Capacity)

\* topFile.content.top || []
CurrentTopOf(content) ==
    IF "top" \in DOMAIN content THEN content.top ELSE <<>>

\* a record only when strictly better
IsNewRecordStrict(ms, currentTop) ==
    IF currentTop = <<>> \/ currentTop[1].ms = 0 THEN TRUE
    ELSE ms < currentTop[1].ms

\* ms <= (currentTop[0]?.ms || Infinity)
IsNewRecord(ms, currentTop) ==
    IF currentTop = <<>> \/ currentTop[1].ms = 0 THEN TRUE
    ELSE ms <= currentTop[1].ms

\* updatedTop.findIndex(score => score.id === id), 0-based, -1 if none
RECURSIVE FindIndexFrom(_, _, _)
FindIndexFrom(s, id, i) ==
    IF s = <<>> THEN -1
    ELSE IF Head(s).id = id THEN i
    ELSE FindIndexFrom(Tail(s), id, i + 1)

FindIndex(s, id) == FindIndexFrom(s, id, 0)

Position(updatedTop, id) == FindIndex(updatedTop, id) + 1

-----------------------------------------------------------------------------
(* The store: GitHub contents API *)

\* GET /contents/<path>: 200 with content and sha, 404 if the path is absent,
\* or any failure of the call itself (network, 5xx, 401)
ReadCode(doc, ok) == IF ~ok THEN 503 ELSE IF doc = Missing THEN 404 ELSE 200

\* a store that replaces a document whatever sha the PUT carries
PutCodeAnySha(doc, sha, ok) ==
    IF ~ok THEN 503 ELSE IF doc = Missing THEN 201 ELSE 200

\* PUT /contents/<path> with body { message, content, sha, branch }:
\* a path that exists is replaced only when sha names its current blob
\* (409 otherwise, 422 when no sha is sent); a path that does not exist is
\* created when no sha is sent.
PutCode(doc, sha, ok) ==
    IF ~ok THEN 503
    ELSE IF doc = Missing THEN (IF sha = NoSha THEN 201 ELSE 404)
    ELSE IF sha = NoSha THEN 422
    ELSE IF sha = ShaOf(doc) THEN 200
    ELSE 409

\* response.ok
ResponseOk(code) == code \in {200, 201}

\* getGitHubFile: { content, sha }
GetGitHubFile(doc) == [content |-> doc, sha |-> ShaOf(doc)]

-----------------------------------------------------------------------------
(* save-reaction-score *)

\* event.body: { ms }, of any JSON type
Requests ==
    { [type |-> "number", val |-> v] : v \in {0, 79, 80, 142, 1000, 1001} }
    \cup { [type |-> "string", val |-> 142], [type |-> "undefined", val |-> 0],
           [type |-> "unparsable", val |-> 0] }

\* Math.random().toString(16).substr(2, 8): two invocations may draw the
\* same id, and an id may equal one already stored
Ids == {1, 3}

\* JSON.parse(event.body) throws, or the body is no object to take ms from
BodyThrows(req) == req.type = "unparsable"

\* a check that turns the two boundary values away
InvalidMsExclusive(req) ==
    \/ req.type = "undefined"
    \/ req.val = 0
    \/ req.type # "number"
    \/ req.val <= MinMs
    \/ req.val >= MaxMs

\* !ms || typeof ms !== 'number' || ms < 80 || ms > 1000
InvalidMs(req) ==
    \/ req.type = "undefined"
    \/ req.val = 0
    \/ req.type # "number"
    \/ req.val < MinMs
    \/ req.val > MaxMs

SubIdle ==
    [pc |-> "idle", req |-> Null, newScore |-> Null, latestFile |-> Null,
     topFile |-> Null, statusCode |-> 0, details |-> Null,
     isNewRecord |-> FALSE, position |-> NoPosition]

\* a handler that has returned holds nothing but its response
SubReturn(s, statusCode) ==
    [SubIdle EXCEPT !.pc = "done", !.req = s.req, !.statusCode = statusCode]

\* a handler that starts over from its reads when a write is refused
SubFailRetry(s, what, path, code) ==
    IF what = "update"
    THEN [s EXCEPT !.pc = "read", !.latestFile = Null, !.topFile = Null]
    ELSE [SubReturn(s, 500) EXCEPT
             !.details = [what |-> what, path |-> path, code |-> code]]

\* a catch that reports 'Failed to save score' and nothing of the error
SubFailGeneric(s, what, path, code) ==
    [SubReturn(s, 500) EXCEPT
        !.details = [what |-> "error", path |-> "none", code |-> 0]]

\* catch (error): statusCode 500, details: error.message
SubFail(s, what, path, code) ==
    [SubReturn(s, 500) EXCEPT
        !.details = [what |-> what, path |-> path, code |-> code]]

\* lines 204-233: parse, validate, build newScore
SubmitStart(p, req, id) ==
    /\ sub[p].pc = "idle"
    /\ sub' = [sub EXCEPT ![p] =
          IF BodyThrows(req)
          THEN SubFail([@ EXCEPT !.req = req], "parse", "body", 0)
          ELSE IF InvalidMs(req)
          THEN SubReturn([@ EXCEPT !.req = req], 400)
          ELSE [@ EXCEPT !.pc = "auth", !.req = req,
                         !.newScore = NewScore(req.val, p, id, CurrentSeason(now))]]
    /\ UNCHANGED <<top, latest, archive, now, rot>>

\* lines 272-290: exchange the JWT for an installation access token
SubmitAuth(p, ok) ==
    /\ sub[p].pc = "auth"
    /\ sub' = [sub EXCEPT ![p] =
          IF ok THEN [@ EXCEPT !.pc = "read"]
          ELSE SubFail(@, "auth", "token", 401)]
    /\ UNCHANGED <<top, latest, archive, now, rot>>

\* after a read of Promise.all([latest, top]) both files are in hand
AfterRead(s) ==
    IF s.latestFile # Null /\ s.topFile # Null
    THEN [s EXCEPT !.pc = "writeLatest"] ELSE s

\* lines 350-354: getGitHubFile('reaction/latest.json')
SubmitReadLatest(p, ok) ==
    /\ sub[p].pc = "read"
    /\ sub[p].latestFile = Null
    /\ LET code == ReadCode(latest, ok) IN
       sub' = [sub EXCEPT ![p] =
          IF ResponseOk(code)
          THEN AfterRead([@ EXCEPT !.latestFile = GetGitHubFile(latest)])
          ELSE SubFail(@, "fetch", "latest", code)]
    /\ UNCHANGED <<top, latest, archive, now, rot>>

\* lines 350-354: getGitHubFile('reaction/top.json')
SubmitReadTop(p, ok) ==
    /\ sub[p].pc = "read"
    /\ sub[p].topFile = Null
    /\ LET code == ReadCode(top, ok) IN
       sub' = [sub EXCEPT ![p] =
          IF ResponseOk(code)
          THEN AfterRead([@ EXCEPT !.topFile = GetGitHubFile(top)])
          ELSE SubFail(@, "fetch", "top", code)]
    /\ UNCHANGED <<top, latest, archive, now, rot>>

\* the content put to latest.json: newScore (always replace with new score)
LatestContent(s) == s.newScore

\* a handler that goes on to top.json when its write of latest.json fails
SubmitWriteLatestGoOn(p, ok) ==
    /\ sub[p].pc = "writeLatest"
    /\ LET code == PutCode(latest, sub[p].latestFile.sha, ok) IN
       /\ latest' = IF ResponseOk(code) THEN LatestContent(sub[p]) ELSE latest
       /\ sub' = [sub EXCEPT ![p].pc = "writeTop"]
    /\ UNCHANGED <<top, archive, now, rot>>

\* lines 356-362: updateGitHubFile('reaction/latest.json', newScore, latestFile.sha)
SubmitWriteLatest(p, ok) ==
    /\ sub[p].pc = "writeLatest"
    /\ LET code == PutCode(latest, sub[p].latestFile.sha, ok) IN
       IF ResponseOk(code)
       THEN /\ latest' = LatestContent(sub[p])
            /\ sub' = [sub EXCEPT ![p].pc = "writeTop"]
       ELSE /\ latest' = latest
            /\ sub' = [sub EXCEPT ![p] = SubFail(@, "update", "latest", code)]
    /\ UNCHANGED <<top, archive, now, rot>>

\* topData = { top: updatedTop, last_updated: timestamp }
TopData(updatedTop, timestamp) ==
    [top |-> updatedTop, last_updated |-> timestamp]

\* lines 364-404: merge, updateGitHubFile('reaction/top.json', topData, topFile.sha),
\* then the success response
SubmitWriteTop(p, ok) ==
    /\ sub[p].pc = "writeTop"
    /\ LET s == sub[p]
           currentTop == CurrentTopOf(s.topFile.content)
           updatedTop == UpdatedTop(currentTop, s.newScore)
           code == PutCode(top, s.topFile.sha, ok)
       IN
       IF ResponseOk(code)
       THEN /\ top' = TopData(updatedTop, s.newScore.timestamp)
            /\ sub' = [sub EXCEPT ![p] =
                  [SubReturn(s, 200) EXCEPT
                      !.newScore = s.newScore,
                      !.isNewRecord = IsNewRecord(s.newScore.ms, currentTop),
                      !.position = Position(updatedTop, s.newScore.id)]]
       ELSE /\ top' = top
            /\ sub' = [sub EXCEPT ![p] = SubFail(@, "update", "top", code)]
    /\ UNCHANGED <<latest, archive, now, rot>>

-----------------------------------------------------------------------------
(* season-reset *)

\* event: the season the caller names in the request body (the handler takes
\* event.httpMethod only); attempt: how many invocations came before this one
RotIdle ==
    [pc |-> "idle", event |-> Null, attempt |-> 0, token |-> Null,
     currentDate |-> 0, currentSeason |-> 0,
     archiveData |-> Null, statusCode |-> 0, details |-> Null]

\* the response: archived_season is currentSeason, new_season the next one
RotReturn(r, statusCode) ==
    [RotIdle EXCEPT !.pc = "done", !.attempt = r.attempt,
                    !.statusCode = statusCode]

\* new Date() of an invocation of season-reset: an instant no other
\* invocation has (submissions carry 1..NumSubmit, stored documents 0)
RotInstant(r, attempt) == r + attempt * (NumSubmit + NumRotate)

\* catch (error): statusCode 500, details: error.message
RotFail(r, what, path, code) ==
    [RotReturn(r, 500) EXCEPT
        !.details = [what |-> what, path |-> path, code |-> code]]

\* archiveData = { season, season_end, top_scores: [], total_players: 0 }
ArchiveData(season, date) ==
    [season |-> season, season_end |-> date, top_scores |-> <<>>,
     total_players |-> 0]

\* a reset that starts the next season where the closed one started
NewTopScoresSameStart(season, date) ==
    [top |-> <<>>, last_updated |-> date, season |-> season + 1,
     season_start |-> (season - 1) * SeasonDays * HoursPerDay]

\* newTopScores = { top: [], last_updated, season: currentSeason + 1, season_start }
\* season_start = epoch + currentSeason * 90 days, in hours since the epoch
NewTopScores(season, date) ==
    [top |-> <<>>, last_updated |-> date, season |-> season + 1,
     season_start |-> season * SeasonDays * HoursPerDay]

\* newLatestScore = { latest: null, last_updated, season: currentSeason + 1 }
NewLatestScore(season, date) ==
    [latest |-> Null, last_updated |-> date, season |-> season + 1]

\* lines 10-33: a POST enters the handler with its credentials configured
RotateStart(r, season) ==
    /\ rot[r].pc = "idle"
    /\ rot' = [rot EXCEPT ![r].pc = "auth", ![r].event = season]
    /\ UNCHANGED <<top, latest, archive, now, sub>>

\* the caller posts to season-reset again after an invocation has returned
RotateRetry(r, season) ==
    /\ rot[r].pc = "done"
    /\ rot[r].attempt < MaxRetries
    /\ rot' = [rot EXCEPT ![r] =
          [RotIdle EXCEPT !.pc = "auth", !.event = season,
                          !.attempt = rot[r].attempt + 1]]
    /\ UNCHANGED <<top, latest, archive, now, sub>>

\* lines 35-70 and 156-179: getGitHubToken returns data.token without looking
\* at the response status (an error response yields undefined); only a failed
\* call throws.  Then the season is read off the clock.
RotateAuth(r, outcome) ==
    /\ rot[r].pc = "auth"
    /\ rot' = [rot EXCEPT ![r] =
          IF outcome = "throws" THEN RotFail(@, "auth", "token", 503)
          ELSE [@ EXCEPT !.pc = "readTop",
                         !.event = Null,
                         !.token = IF outcome = "token" THEN "valid" ELSE "undefined",
                         !.currentDate = RotInstant(r, rot[r].attempt),
                         !.currentSeason = CurrentSeason(now),
                         !.archiveData = ArchiveData(CurrentSeason(now),
                                                     RotInstant(r, rot[r].attempt))]]
    /\ UNCHANGED <<top, latest, archive, now, sub>>

\* a call made with an undefined token is refused by the store
RotCallOk(r, ok) == ok /\ rot[r].token = "valid"

\* lines 72-88: read top.json for the archive; a failed read is logged and
\* the handler goes on with the empty archive
RotateReadTop(r, ok) ==
    /\ rot[r].pc = "readTop"
    /\ LET code == ReadCode(top, RotCallOk(r, ok))
           currentTop == CurrentTopOf(top)
       IN
       rot' = [rot EXCEPT ![r] =
          IF ResponseOk(code)
          THEN [@ EXCEPT !.pc = "writeArchive",
                         !.archiveData = [@ EXCEPT !.top_scores = currentTop,
                                                   !.total_players = Len(currentTop)]]
          ELSE [@ EXCEPT !.pc = "writeArchive"]]
    /\ UNCHANGED <<top, latest, archive, now, sub>>

\* lines 90-99: createOrUpdateFileContents(archive/season-N.json), no sha
RotateWriteArchive(r, ok) ==
    /\ rot[r].pc = "writeArchive"
    /\ LET n == rot[r].currentSeason
           code == PutCode(archive[n], NoSha, RotCallOk(r, ok))
       IN
       IF ResponseOk(code)
       THEN /\ archive' = [archive EXCEPT ![n] = rot[r].archiveData]
            /\ rot' = [rot EXCEPT ![r].pc = "writeTop"]
       ELSE /\ archive' = archive
            /\ rot' = [rot EXCEPT ![r] = RotFail(@, "update", "archive", code)]
    /\ UNCHANGED <<top, latest, now, sub>>

\* lines 101-110: createOrUpdateFileContents(top.json, newTopScores), no sha
RotateWriteTop(r, ok) ==
    /\ rot[r].pc = "writeTop"
    /\ LET code == PutCode(top, NoSha, RotCallOk(r, ok)) IN
       IF ResponseOk(code)
       THEN /\ top' = NewTopScores(rot[r].currentSeason, rot[r].currentDate)
            /\ rot' = [rot EXCEPT ![r].pc = "writeLatest"]
       ELSE /\ top' = top
            /\ rot' = [rot EXCEPT ![r] = RotFail(@, "update", "top", code)]
    /\ UNCHANGED <<latest, archive, now, sub>>

\* lines 112-136: createOrUpdateFileContents(latest.json, newLatestScore), no sha
RotateWriteLatest(r, ok) ==
    /\ rot[r].pc = "writeLatest"
    /\ LET code == PutCode(latest, NoSha, RotCallOk(r, ok)) IN
       IF ResponseOk(code)
       THEN /\ latest' = NewLatestScore(rot[r].currentSeason, rot[r].currentDate)
            /\ rot' = [rot EXCEPT ![r] =
                  [RotReturn(@, 200) EXCEPT !.currentSeason = rot[r].currentSeason]]
       ELSE /\ latest' = latest
            /\ rot' = [rot EXCEPT ![r] = RotFail(@, "update", "latest", code)]
    /\ UNCHANGED <<top, archive, now, sub>>

-----------------------------------------------------------------------------
(* The clock *)

\* new Date(): time passes, here a season at a time
Tick ==
    /\ now < MaxTicks * SeasonHours
    /\ now' = now + SeasonHours
    /\ UNCHANGED <<top, latest, archive, sub, rot>>

-----------------------------------------------------------------------------
(* Initial states: a store that holds a leaderboard written by earlier     *)
(* submissions, or a store in which the documents were never created       *)

\* a stored entry of an earlier submission; ids of stored entries alternate
StoredEntry(ms, i) == NewScore(ms, 0, (i % 2) + 1, 1)

\* k entries of the best value followed by n - k of the worst
StoredBoard(n, k) ==
    [i \in 1..n |-> StoredEntry(IF i <= k THEN 80 ELSE 1000, i)]

InitLens == {0, 1, Capacity - 1, Capacity}

\* all of the worst value, half and half, all of the best value
InitSplits == {0, Capacity \div 2, Capacity}

InitBoards == { StoredBoard(n, k) : n \in InitLens, k \in InitSplits }

\* the boards the concurrent specification starts from: empty, and full
ConcurrentBoards == { StoredBoard(0, 0), StoredBoard(Capacity, Capacity \div 2) }

InitStore(boards) ==
    \/ top \in { TopData(b, 0) : b \in boards } /\ latest = StoredEntry(142, 1)
    \/ top = Missing /\ latest = Missing

InitRest ==
    /\ archive = [n \in Seasons |-> Missing]
    /\ now = 0
    /\ sub = [p \in Submitters |-> SubIdle]
    /\ rot = [r \in Rotators |-> RotIdle]

Init == InitStore(ConcurrentBoards) /\ InitRest

Next ==
    \/ \E p \in Submitters, req \in Requests, id \in Ids : SubmitStart(p, req, id)
    \/ \E p \in Submitters, ok \in BOOLEAN : SubmitAuth(p, ok)
    \/ \E p \in Submitters, ok \in BOOLEAN : SubmitReadLatest(p, ok)
    \/ \E p \in Submitters, ok \in BOOLEAN : SubmitReadTop(p, ok)
    \/ \E p \in Submitters, ok \in BOOLEAN : SubmitWriteLatest(p, ok)
    \/ \E p \in Submitters, ok \in BOOLEAN : SubmitWriteTop(p, ok)
    \/ \E r \in Rotators, season \in Seasons : RotateStart(r, season)
    \/ \E r \in Rotators, outcome \in {"token", "refused", "throws"} : RotateAuth(r, outcome)
    \/ \E r \in Rotators, ok \in BOOLEAN : RotateReadTop(r, ok)
    \/ \E r \in Rotators, ok \in BOOLEAN : RotateWriteArchive(r, ok)
    \/ \E r \in Rotators, ok \in BOOLEAN : RotateWriteTop(r, ok)
    \/ \E r \in Rotators, ok \in BOOLEAN : RotateWriteLatest(r, ok)
    \/ Tick

Spec == Init /\ [][Next]_vars

-----------------------------------------------------------------------------
(* Sequential submissions: one invocation of save-reaction-score at a time, *)
(* from every stored leaderboard of InitBoards                              *)

InitSeq == InitStore(InitBoards) /\ InitRest

\* no other invocation is in flight
Quiet(p) == \A q \in Submitters \ {p} : sub[q].pc \in {"idle", "done"}

SeqStart(p, req, id) == Quiet(p) /\ SubmitStart(p, req, id)

\* the requests that pass validation
ValidRequests == { req \in Requests : ~BodyThrows(req) /\ ~InvalidMs(req) }

NextSeq ==
    \/ \E p \in Submitters, req \in ValidRequests, id \in Ids : SeqStart(p, req, id)
    \/ \E p \in Submitters, ok \in BOOLEAN : SubmitAuth(p, ok)
    \/ \E p \in Submitters, ok \in BOOLEAN : SubmitReadLatest(p, ok)
    \/ \E p \in Submitters, ok \in BOOLEAN : SubmitReadTop(p, ok)
    \/ \E p \in Submitters, ok \in BOOLEAN : SubmitWriteLatest(p, ok)
    \/ \E p \in Submitters, ok \in BOOLEAN : SubmitWriteTop(p, ok)

SpecSeq == InitSeq /\ [][NextSeq]_vars

-----------------------------------------------------------------------------
(* Rotations: season-reset invoked, and invoked again after it returned,    *)
(* while submissions of one value and the clock go on                       *)

RotRequests == { [type |-> "number", val |-> 142] }

RotStart(p, req) == SubmitStart(p, req, 1)

NextRot ==
    \/ \E p \in Submitters, req \in RotRequests : RotStart(p, req)
    \/ \E p \in Submitters, ok \in BOOLEAN : SubmitAuth(p, ok)
    \/ \E p \in Submitters, ok \in BOOLEAN : SubmitReadLatest(p, ok)
    \/ \E p \in Submitters, ok \in BOOLEAN : SubmitReadTop(p, ok)
    \/ \E p \in Submitters, ok \in BOOLEAN : SubmitWriteLatest(p, ok)
    \/ \E p \in Submitters, ok \in BOOLEAN : SubmitWriteTop(p, ok)
    \/ \E r \in Rotators, season \in Seasons : RotateStart(r, season)
    \/ \E r \in Rotators, season \in Seasons : RotateRetry(r, season)
    \/ \E r \in Rotators, outcome \in {"token", "refused", "throws"} : RotateAuth(r, outcome)
    \/ \E r \in Rotators, ok \in BOOLEAN : RotateReadTop(r, ok)
    \/ \E r \in Rotators, ok \in BOOLEAN : RotateWriteArchive(r, ok)
    \/ \E r \in Rotators, ok \in BOOLEAN : RotateWriteTop(r, ok)
    \/ \E r \in Rotators, ok \in BOOLEAN : RotateWriteLatest(r, ok)
    \/ Tick

SpecRot == Init /\ [][NextRot]_vars

-----------------------------------------------------------------------------
(* The season computation of both handlers at instants around the day and   *)
(* season boundaries                                                        *)

\* hours into a season: its first hours, the end of its first day, its last
\* day and its last hour
Offsets ==
    {0, 1, HoursPerDay - 1, HoursPerDay, SeasonHours - HoursPerDay,
     SeasonHours - 1}

Instants == { s * SeasonHours + d : s \in 0..MaxTicks, d \in Offsets }

InitClock ==
    /\ InitStore({StoredBoard(0, 0)})
    /\ archive = [n \in Seasons |-> Missing]
    /\ now \in Instants
    /\ sub = [p \in Submitters |-> SubIdle]
    /\ rot = [r \in Rotators |-> RotIdle]

NextClock ==
    \/ \E p \in Submitters, req \in RotRequests : RotStart(p, req)
    \/ \E r \in Rotators, season \in Seasons : RotateStart(r, season)
    \/ \E r \in Rotators, outcome \in {"token", "refused", "throws"} : RotateAuth(r, outcome)
    \/ Tick

SpecClock == InitClock /\ [][NextClock]_vars

-----------------------------------------------------------------------------
(* Steps of a submission, as seen from outside *)

\* p's PUT of top.json is answered in this step
WriteTopStep(p) == sub[p].pc = "writeTop" /\ sub'[p].pc = "done"

\* p's PUT of latest.json is answered in this step
WriteLatestStep(p) == sub[p].pc = "writeLatest" /\ sub'[p].pc # "writeLatest"

\* the values of a board, in order
MsOf(board) == [i \in DOMAIN board |-> board[i].ms]

IsSortedByMs(board) ==
    \A i, j \in DOMAIN board : i < j => board[i].ms <= board[j].ms

-----------------------------------------------------------------------------
(* C1: a write that carries a sha which is no longer the sha of the stored  *)
(* document is never accepted: the submission fails and the document is     *)
(* the same after the step as before it (so the next read returns the       *)
(* pre-write content).  Checked for both conditional writes, in every       *)
(* interleaving of submissions, rotations and clock ticks.                  *)
StaleWriteRejected ==
    [][\A p \in Submitters :
        /\ (WriteTopStep(p) /\ sub[p].topFile.sha # ShaOf(top))
               => (top' = top /\ sub'[p].statusCode = 500)
        /\ (WriteLatestStep(p) /\ sub[p].latestFile.sha # ShaOf(latest))
               => (latest' = latest /\ sub'[p].statusCode = 500)]_vars

\* a submission whose PUT of top.json was answered 409
StaleWriteSeen ==
    \E p \in Submitters :
        /\ sub[p].statusCode = 500
        /\ sub[p].details = [what |-> "update", path |-> "top", code |-> 409]

(* C2: two submissions that hold the same version of top.json: when the     *)
(* PUT of one is accepted the stored leaderboard is that submission's merge *)
(* of the version both read and the version the other holds is stale from   *)
(* then on; a PUT that carries a stale version is refused (409, or 503 when *)
(* the call itself fails), so at most one of the two is accepted; and an    *)
(* accepted PUT was always computed from the leaderboard it replaces, so it *)
(* drops no entry another accepted write added.                             *)
OneWriterPerVersion ==
    [][\A p \in Submitters :
        WriteTopStep(p) =>
          /\ sub'[p].statusCode = 200 =>
               /\ sub[p].topFile.content = top
               /\ top' = TopData(UpdatedTop(CurrentTopOf(top), sub[p].newScore),
                                 sub[p].newScore.timestamp)
               /\ \A q \in Submitters \ {p} :
                     (sub[q].topFile # Null /\ sub[q].topFile.sha = sub[p].topFile.sha)
                        => sub[q].topFile.sha # ShaOf(top')
          /\ sub[p].topFile.sha # ShaOf(top) =>
               /\ sub'[p].statusCode = 500
               /\ sub'[p].details.code \in {409, 503}
          /\ sub[p].topFile.sha = ShaOf(top) =>
               \/ sub'[p].statusCode = 200
               \/ sub'[p].statusCode = 500 /\ sub'[p].details.code = 503]_vars

\* one submission's write was accepted while another, which read the same
\* (initial) version, is about to send its own
RaceLostSeen ==
    \E p, q \in Submitters :
        /\ p # q
        /\ sub[p].statusCode = 200
        /\ top.last_updated = p
        /\ sub[q].pc = "writeTop"
        /\ sub[q].topFile.content.last_updated = 0

(* C3: in every reachable state the entries of top.json are sorted          *)
(* ascending by ms and are at most 10.                                      *)
LeaderboardSortedAndBounded ==
    top # Missing =>
        /\ IsSortedByMs(top.top)
        /\ Len(top.top) <= Capacity

\* a submission merged into a full leaderboard and its entry was cut off
TruncationSeen ==
    \E p \in Submitters :
        /\ sub[p].statusCode = 200
        /\ sub[p].position = NoPosition
        /\ top.last_updated = p
        /\ Len(top.top) = Capacity

-----------------------------------------------------------------------------
(* The merge, as seen on the step that stores its result *)

\* p's PUT of top.json is accepted in this step
MergeStored(p) == WriteTopStep(p) /\ sub'[p].statusCode = 200

\* the leaderboard p read
ReadTopOf(p) == CurrentTopOf(sub[p].topFile.content)

CountMs(board, v) == Cardinality({ i \in DOMAIN board : board[i].ms = v })

MsIn(board) == { board[i].ms : i \in DOMAIN board }

Min(a, b) == IF a <= b THEN a ELSE b

\* kept holds the n smallest values of the multiset of values of all
HoldsSmallest(kept, all, n) ==
    /\ Len(kept) = Min(Len(all), n)
    /\ MsIn(kept) \subseteq MsIn(all)
    /\ \A v \in MsIn(all) :
          /\ CountMs(kept, v) <= CountMs(all, v)
          /\ CountMs(kept, v) < CountMs(all, v) =>
                \A i \in DOMAIN kept : kept[i].ms <= v

Without(board, e) == SelectSeq(board, LAMBDA x : x # e)

IsPrefix(a, b) == Len(a) <= Len(b) /\ a = SubSeq(b, 1, Len(a))

\* 1-based index of entry e in board, NoPosition if it is not there
RankOf(board, e) ==
    IF \E i \in DOMAIN board : board[i] = e
    THEN CHOOSE i \in DOMAIN board : board[i] = e
    ELSE NoPosition

(* C4: the leaderboard a submission stores has at most 10 entries and holds *)
(* the 10 smallest values of the multiset made of the entries it read and   *)
(* the new entry: whatever is dropped is at least as large as all it keeps. *)
MergeKeepsSmallest ==
    [][\A p \in Submitters :
        MergeStored(p) =>
          /\ Len(top'.top) <= Capacity
          /\ HoldsSmallest(top'.top, Append(ReadTopOf(p), sub[p].newScore),
                           Capacity)]_vars

\* both submissions are in a full leaderboard that held at least 9 stored
\* entries before them: a stored entry was dropped for a new one
StoredEntryDropped ==
    /\ top # Missing
    /\ Len(top.top) = Capacity
    /\ \A p \in Submitters :
          /\ sub[p].statusCode = 200
          /\ RankOf(top.top, sub[p].newScore) # NoPosition

(* C5: the values stored after two submissions made one after the other do *)
(* not depend on which came first: the leaderboard stored by the second is, *)
(* value for value, the one the opposite order gives from the same stored   *)
(* leaderboard; on an empty leaderboard, the larger value submitted first   *)
(* and the smaller second yields [smaller, larger].                         *)
MergeOrderIndependent ==
    [][\A p, q \in Submitters :
        (/\ p # q
         /\ MergeStored(p)
         /\ sub[q].statusCode = 200
         /\ top.last_updated = q
         /\ sub[p].topFile.content = top) =>
          LET e1 == sub[p].newScore
              e2 == sub[q].newScore
          IN
          /\ \A b \in InitBoards :
                UpdatedTop(b, e2) = top.top =>
                   MsOf(top'.top) = MsOf(UpdatedTop(UpdatedTop(b, e1), e2))
          /\ (top.top = <<e2>> /\ e1.ms < e2.ms) => top'.top = <<e1, e2>>]_vars

\* the smaller value was submitted last and is stored first
SmallerLastStoredFirst ==
    \E p, q \in Submitters :
        /\ p # q
        /\ sub[p].statusCode = 200
        /\ sub[q].statusCode = 200
        /\ top.last_updated = p
        /\ top.top = <<sub[p].newScore, sub[q].newScore>>
        /\ sub[p].newScore.ms < sub[q].newScore.ms

(* C6: entries of equal value stay in the order they were submitted: the    *)
(* new entry is stored after every entry it ties with, the entries read     *)
(* keep their order, and a new entry that does not beat the last entry of a *)
(* full leaderboard is the one dropped.                                     *)
TiesKeepInsertionOrder ==
    [][\A p \in Submitters :
        MergeStored(p) =>
          LET cur == ReadTopOf(p)
              e == sub[p].newScore
              res == top'.top
          IN
          /\ \A i \in DOMAIN res :
                res[i] = e =>
                   \A j \in DOMAIN res :
                      /\ j < i => res[j].ms <= e.ms
                      /\ j > i => res[j].ms > e.ms
          /\ IsPrefix(Without(res, e), cur)
          /\ (Len(cur) = Capacity /\ e.ms >= cur[Capacity].ms) => res = cur]_vars

\* the new entry is stored right after a stored entry of the same value
TieStoredAfter ==
    \E p \in Submitters :
        /\ sub[p].statusCode = 200
        /\ top.last_updated = p
        /\ \E i \in DOMAIN top.top :
              /\ i > 1
              /\ top.top[i] = sub[p].newScore
              /\ top.top[i - 1].ms = sub[p].newScore.ms
              /\ top.top[i - 1].timestamp = 0

(* C7: isNewRecord is true exactly when no entry of the leaderboard read is *)
(* better than the new value: true on an empty leaderboard and on a tie     *)
(* with the best, false when the new value is greater than the best.        *)
NewRecordIffNotBeaten ==
    [][\A p \in Submitters :
        MergeStored(p) =>
          (sub'[p].isNewRecord <=>
              \A i \in DOMAIN ReadTopOf(p) :
                  sub[p].newScore.ms <= ReadTopOf(p)[i].ms)]_vars

\* 142 into an empty leaderboard is a record at rank 1, a later greater
\* value is no record, at rank 2
FirstIsRecordSecondIsNot ==
    \E p, q \in Submitters :
        /\ sub[p].statusCode = 200 /\ sub[p].isNewRecord /\ sub[p].position = 1
        /\ sub[q].statusCode = 200 /\ ~sub[q].isNewRecord /\ sub[q].position = 2
        /\ sub[p].newScore.ms = 142
        /\ top.top = <<sub[p].newScore, sub[q].newScore>>

(* C8: the position returned is the 1-based index of the submitted entry    *)
(* itself in the leaderboard stored, and null when that entry was cut off.  *)
PositionIsRankOfNewEntry ==
    [][\A p \in Submitters :
        MergeStored(p) =>
            sub'[p].position = RankOf(top'.top, sub[p].newScore)]_vars


-----------------------------------------------------------------------------
(* C9: a request whose ms is not a number from 80 to 1000 inclusive is      *)
(* answered 400 by the very first step of the handler, before the token     *)
(* exchange and any read or write, and no document changes; 80 and 1000     *)
(* pass validation.                                                         *)
InvalidValueRejectedFirst ==
    [][\A p \in Submitters :
        /\ (sub[p].pc = "idle" /\ sub'[p].pc # "idle"
                /\ sub'[p].req.type # "unparsable") =>
              IF sub'[p].req.type = "number"
                    /\ sub'[p].req.val >= 80 /\ sub'[p].req.val <= 1000
              THEN sub'[p].pc = "auth" /\ sub'[p].statusCode = 0
              ELSE /\ sub'[p].pc = "done"
                   /\ sub'[p].statusCode = 400
                   /\ top' = top /\ latest' = latest /\ archive' = archive
        /\ (sub'[p].statusCode = 400 /\ sub[p].statusCode # 400) =>
              sub[p].pc = "idle"]_vars

\* 79 was turned away while 80 went all the way through
BoundaryAcceptedSeen ==
    \E p, q \in Submitters :
        /\ sub[p].statusCode = 400 /\ sub[p].req = [type |-> "number", val |-> 79]
        /\ sub[q].statusCode = 200 /\ sub[q].req = [type |-> "number", val |-> 80]

(* C10: once the submissions have returned, latest.json holds exactly the   *)
(* entry of the most recently accepted one, that is of the submission that  *)
(* last returned success (the one whose leaderboard write is the stored     *)
(* version of top.json), whether or not its entry is in the top 10.         *)
LatestIsLastAcceptedEntry ==
    (/\ \A p \in Submitters : sub[p].pc \in {"idle", "done"}
     /\ \E p \in Submitters : sub[p].statusCode = 200) =>
        /\ top.last_updated \in Submitters
        /\ sub[top.last_updated].statusCode = 200
        /\ latest = sub[top.last_updated].newScore

-----------------------------------------------------------------------------
(* Steps of a rotation, as seen from outside *)

\* r's read of top.json is answered in this step
RotReadStep(r) == rot[r].pc = "readTop" /\ rot'[r].pc # "readTop"

\* r's PUT of archive/season-N.json is answered in this step
RotArchiveStep(r) == rot[r].pc = "writeArchive" /\ rot'[r].pc # "writeArchive"

\* r's PUT of top.json is answered in this step
RotResetStep(r) == rot[r].pc = "writeTop" /\ rot'[r].pc # "writeTop"

\* the failure of a store call itself, the only failure left to a write
\* that the store has no reason to refuse
CallFailed(response) == response.statusCode = 500 /\ response.details.code = 503

(* C11: the write of latest.json is unconditional: when latest.json was      *)
(* changed by another invocation after this submission read it, the write   *)
(* still replaces it with the new entry and the submission goes on; the     *)
(* only way the step fails is that the call itself fails.                   *)
LatestOverwriteUnconditional ==
    [][\A p \in Submitters :
        (WriteLatestStep(p) /\ sub[p].latestFile.sha # ShaOf(latest)) =>
            \/ sub'[p].pc = "writeTop" /\ latest' = sub[p].newScore
            \/ CallFailed(sub'[p]) /\ latest' = latest]_vars

(* C12: a rotation for a season whose archive already exists fails at the   *)
(* archive step: the store refuses the PUT (422, no sha for a path that     *)
(* exists; 503 when the call itself fails), the handler returns 500 and     *)
(* takes no further step, and neither the archive nor top.json nor          *)
(* latest.json is written.                                                  *)
SecondRotationFails ==
    [][\A r \in Rotators :
        (RotArchiveStep(r) /\ archive[rot[r].currentSeason] # Missing) =>
            /\ rot'[r].pc = "done"
            /\ rot'[r].statusCode = 500
            /\ rot'[r].details.what = "update"
            /\ rot'[r].details.path = "archive"
            /\ rot'[r].details.code \in {422, 503}
            /\ archive' = archive
            /\ top' = top
            /\ latest' = latest]_vars

\* the second invocation for a season was refused by the store
SecondRotationRefusedSeen ==
    \E r \in Rotators :
        /\ rot[r].attempt = 1
        /\ rot[r].statusCode = 500
        /\ rot[r].details = [what |-> "update", path |-> "archive", code |-> 422]

(* C13: an archive document, once it exists, has the same content after     *)
(* every step of every rotation and submission.                             *)
ArchiveWriteOnce ==
    [][\A n \in Seasons :
        archive[n] # Missing => archive'[n] = archive[n]]_vars

\* the archive of the first invocation is still the stored one after a
\* second invocation for the season and an accepted submission
ArchiveKeptSeen ==
    \E r \in Rotators, n \in Seasons :
        /\ archive[n] # Missing
        /\ archive[n].season_end = RotInstant(r, 0)
        /\ rot[r].attempt = 1
        /\ rot[r].pc = "done"
        /\ rot[r].details # Null
        /\ rot[r].details.path = "archive"
        /\ \E p \in Submitters : sub[p].statusCode = 200

\* the steps an invocation of season-reset may take, one after the other
RotOrder ==
    { <<"idle", "auth">>, <<"done", "auth">>, <<"auth", "readTop">>,
      <<"readTop", "writeArchive">>, <<"writeArchive", "writeTop">>,
      <<"writeTop", "writeLatest">> }

\* top.json as a rotation leaves it implies the archive of the season before
ResetImpliesArchived ==
    (top # Missing /\ "season" \in DOMAIN top) =>
        archive[top.season - 1] # Missing

(* C14: a rotation reads top.json, writes the archive, resets top.json and  *)
(* resets latest.json in that order, and goes on to a step only when the    *)
(* step before it succeeded: it writes the archive only after a read that   *)
(* returned the leaderboard, resets top.json only after the archive was     *)
(* stored, resets latest.json only after top.json was reset; so a top.json  *)
(* reset for season S+1 implies that the archive of season S exists.        *)
RotationStepsInOrder ==
    [][/\ \A r \in Rotators :
           /\ rot'[r].pc \notin {rot[r].pc, "done"} =>
                  <<rot[r].pc, rot'[r].pc>> \in RotOrder
           /\ (RotReadStep(r) /\ rot'[r].pc = "writeArchive") =>
                  /\ top # Missing
                  /\ rot'[r].archiveData.top_scores = CurrentTopOf(top)
           /\ (RotArchiveStep(r) /\ rot'[r].pc = "writeTop") =>
                  archive'[rot[r].currentSeason] = rot[r].archiveData
           /\ (RotResetStep(r) /\ rot'[r].pc = "writeLatest") =>
                  /\ archive[rot[r].currentSeason] # Missing
                  /\ top'.season = rot[r].currentSeason + 1
       /\ ResetImpliesArchived']_vars

(* C15: the archive a rotation stores holds exactly the entries top.json    *)
(* held when the rotation read it (none when there is no top.json), with    *)
(* total_players their number; it carries the season the invocation closes  *)
(* and is stored at the path of that season, and no other archive path is   *)
(* written.                                                                 *)
ArchiveHoldsLeaderboardRead ==
    [][\A r \in Rotators :
        /\ (RotReadStep(r) /\ rot'[r].pc = "writeArchive") =>
              /\ rot'[r].archiveData.top_scores =
                     (IF top = Missing THEN <<>> ELSE CurrentTopOf(top))
              /\ rot'[r].archiveData.total_players =
                     Len(rot'[r].archiveData.top_scores)
              /\ rot'[r].archiveData.season = rot[r].currentSeason
        /\ (RotArchiveStep(r) /\ rot'[r].pc = "writeTop") =>
              LET n == rot[r].currentSeason IN
              /\ archive'[n] = rot[r].archiveData
              /\ archive'[n].season = n
              /\ archive'[n].total_players = Len(archive'[n].top_scores)
              /\ \A m \in Seasons \ {n} : archive'[m] = archive[m]]_vars

(* C16: the reset of top.json is a conditional write that carries the       *)
(* version the rotation read: when the entries of top.json are no longer    *)
(* those the rotation read, the reset is rejected as a version conflict     *)
(* (409) and top.json stays as the submission left it; a reset is never     *)
(* refused for any other reason than a conflict or the failure of the call. *)
ResetCarriesVersionRead ==
    [][\A r \in Rotators :
        RotResetStep(r) =>
          /\ (top # Missing /\ CurrentTopOf(top) # rot[r].archiveData.top_scores) =>
                /\ top' = top
                /\ rot'[r].statusCode = 500
                /\ rot'[r].details.code \in {409, 503}
          /\ rot'[r].statusCode = 500 =>
                rot'[r].details.code \in {409, 503}]_vars

\* the archive of season n is stored and top.json is not reset for n + 1
ArchivedNotReset(n) ==
    /\ archive[n] # Missing
    /\ ~(top # Missing /\ "season" \in DOMAIN top /\ top.season = n + 1)

(* C17: season-reset invoked again for a season that an earlier invocation  *)
(* archived but did not reset makes progress: its archive step leaves the   *)
(* archive as it is and                                                     *)
(* the invocation goes on, its reset of top.json and of latest.json are     *)
(* accepted, and it returns 200 with top.json reset; only the failure of a  *)
(* call itself can stop it.                                                 *)
RetryCompletesRotation ==
    [][\A r \in Rotators :
        (/\ rot[r].attempt > 0
         /\ rot[r].currentSeason \in Seasons
         /\ ArchivedNotReset(rot[r].currentSeason)
         /\ archive[rot[r].currentSeason].season_end # rot[r].currentDate) =>
          /\ RotArchiveStep(r) =>
                /\ archive' = archive
                /\ rot'[r].pc = "writeTop" \/ CallFailed(rot'[r])
          /\ RotResetStep(r) =>
                \/ /\ rot'[r].pc = "writeLatest"
                   /\ ~ArchivedNotReset(rot[r].currentSeason)'
                \/ CallFailed(rot'[r])]_vars

-----------------------------------------------------------------------------
\* floor((now - epoch) / periodLength) + 1, with the period a season long
PeriodsElapsed(t) == (t \div SeasonHours) + 1

(* C18: at every instant at or after the epoch the season a submission      *)
(* stamps on its entry and the season a rotation closes both equal          *)
(* floor((now - epoch) / 90 days) + 1, so the two handlers compute the same *)
(* season at the same instant.                                              *)
SeasonIsPeriodsElapsed ==
    [][/\ \A p \in Submitters :
            (sub[p].pc = "idle" /\ sub'[p].pc = "auth") =>
                sub'[p].newScore.season = PeriodsElapsed(now)
       /\ \A r \in Rotators :
            (rot[r].pc = "auth" /\ rot'[r].pc = "readTop") =>
                /\ rot'[r].currentSeason = PeriodsElapsed(now)
                /\ rot'[r].archiveData.season = PeriodsElapsed(now)]_vars

\* an entry stamped in the last hour of season 1, and in the last hour of
\* season 2 another entry and a rotation
LastHourOfSeasonSeen ==
    \E p, q \in Submitters, r \in Rotators :
        /\ now = 2 * SeasonHours - 1
        /\ sub[p].pc = "auth" /\ sub[p].newScore.season = 1
        /\ sub[q].pc = "auth" /\ sub[q].newScore.season = 2
        /\ rot[r].pc = "readTop" /\ rot[r].currentSeason = 2

(* C19: the season a rotation closes is the season its caller names in the  *)
(* request, whatever the clock says when the handler runs: the season of    *)
(* the archive it builds, and so the archive path it targets, is the one    *)
(* requested.                                                               *)
RotationClosesSeasonNamed ==
    [][\A r \in Rotators :
        (rot[r].pc = "auth" /\ rot'[r].pc = "readTop") =>
            /\ rot'[r].currentSeason = rot[r].event
            /\ rot'[r].archiveData.season = rot[r].event]_vars

\* an invocation of season-reset has reset both documents and returned 200
RotationDone == \E r \in Rotators : rot[r].pc = "done" /\ rot[r].statusCode = 200

(* C20: once a rotation has completed, top.json carries a season and every  *)
(* entry in it carries that same season, also when the entry was submitted  *)
(* while the clock was still in the season the rotation closed.             *)
EntrySeasonsMatchDocument ==
    RotationDone =>
        /\ top # Missing
        /\ "season" \in DOMAIN top
        /\ \A i \in DOMAIN top.top : top.top[i].season = top.season

-----------------------------------------------------------------------------
(* C21: when a rotation that closes season S returns 200, top.json has no   *)
(* entries, season S+1 and a season_start of S periods after the epoch, and *)
(* latest.json has a null entry and season S+1.                             *)
CompletedRotationResetsBoth ==
    [][\A r \in Rotators :
        (rot[r].pc = "writeLatest" /\ rot'[r].statusCode = 200) =>
            LET S == rot[r].currentSeason IN
            /\ archive'[S] # Missing
            /\ top'.top = <<>>
            /\ top'.season = S + 1
            /\ top'.season_start = S * SeasonHours
            /\ latest'.latest = Null
            /\ latest'.season = S + 1]_vars

\* the rotation that closed season 2 has completed
SeasonTwoClosed ==
    /\ RotationDone
    /\ now = SeasonHours
    /\ archive[2] # Missing
    /\ top # Missing /\ top.top = <<>> /\ "season" \in DOMAIN top /\ top.season = 3
    /\ top.season_start = 2 * SeasonHours
    /\ latest # Missing /\ "latest" \in DOMAIN latest /\ latest.season = 3

(* C22: a failed read of top.json ends the rotation: the handler goes on to *)
(* the archive write only with the leaderboard the store returned, and in   *)
(* every other case (no top.json, access denied, failure of the call) it    *)
(* returns 500 to its caller having written nothing.                        *)
ReadFailureEndsRotation ==
    [][\A r \in Rotators :
        RotReadStep(r) =>
            \/ /\ top # Missing
               /\ rot[r].token = "valid"
               /\ rot'[r].pc = "writeArchive"
               /\ rot'[r].archiveData.top_scores = CurrentTopOf(top)
            \/ /\ rot'[r].pc = "done"
               /\ rot'[r].statusCode = 500
               /\ UNCHANGED <<top, latest, archive>>]_vars

(* C23: a failed token exchange aborts the invocation before any store      *)
(* call: a submission or a rotation leaves its token exchange either with a *)
(* token, to go on to its first read, or with a 500 response and the store  *)
(* untouched; no store call is made without a token.                        *)
AuthFailureAborts ==
    [][/\ \A p \in Submitters :
            (sub[p].pc = "auth" /\ sub'[p].pc # "auth") =>
                \/ sub'[p].pc = "read"
                \/ /\ sub'[p].pc = "done"
                   /\ sub'[p].statusCode = 500
                   /\ sub'[p].details.what = "auth"
                   /\ UNCHANGED <<top, latest, archive>>
       /\ \A r \in Rotators :
            (rot[r].pc = "auth" /\ rot'[r].pc # "auth") =>
                \/ rot'[r].pc = "readTop" /\ rot'[r].token = "valid"
                \/ /\ rot'[r].pc = "done"
                   /\ rot'[r].statusCode = 500
                   /\ rot'[r].details.what = "auth"
                   /\ UNCHANGED <<top, latest, archive>>]_vars

\* p returns a failure in this step
SubFailStep(p) == sub[p].pc # "done" /\ sub'[p].pc = "done" /\ sub'[p].statusCode = 500

(* C24: the response to a failed invocation tells a version conflict from   *)
(* every other failure: a write refused because the document changed since  *)
(* it was read is reported with the store's conflict answer (409) for the   *)
(* document concerned, unless the call itself failed; a write that carried  *)
(* the current version, a failed read, a failed token exchange and every    *)
(* failure of a rotation are never reported that way.                       *)
ConflictReportedAsSuch ==
    [][/\ \A p \in Submitters :
            SubFailStep(p) =>
                LET d == sub'[p].details IN
                /\ sub[p].pc = "writeTop" =>
                      /\ d.what = "update" /\ d.path = "top"
                      /\ d.code = 409 => sub[p].topFile.sha # ShaOf(top)
                      /\ sub[p].topFile.sha # ShaOf(top) => d.code \in {409, 503}
                /\ sub[p].pc = "writeLatest" =>
                      /\ d.what = "update" /\ d.path = "latest"
                      /\ d.code = 409 => sub[p].latestFile.sha # ShaOf(latest)
                      /\ sub[p].latestFile.sha # ShaOf(latest) => d.code \in {409, 503}
                /\ sub[p].pc \in {"idle", "auth", "read"} =>
                      /\ d.what \in {"parse", "auth", "fetch"}
                      /\ d.code # 409
       /\ \A r \in Rotators :
            (rot[r].pc # "done" /\ rot'[r].pc = "done" /\ rot'[r].statusCode = 500) =>
                rot'[r].details.code # 409]_vars

\* one submission was answered with the conflict on latest.json, the other,
\* which had replaced latest.json, with the failure of its call for top.json
ConflictAndCallFailureSeen ==
    \E p, q \in Submitters :
        /\ sub[p].statusCode = 500
        /\ sub[p].details = [what |-> "update", path |-> "latest", code |-> 409]
        /\ sub[q].statusCode = 500
        /\ sub[q].details = [what |-> "update", path |-> "top", code |-> 503]

\* the order of the steps of save-reaction-score and of season-reset
SubRank(pc) ==
    CASE pc = "idle" -> 0 [] pc = "auth" -> 1 [] pc = "read" -> 2
      [] pc = "writeLatest" -> 3 [] pc = "writeTop" -> 4 [] pc = "done" -> 5

RotRank(pc) ==
    CASE pc = "idle" -> 0 [] pc = "auth" -> 1 [] pc = "readTop" -> 2
      [] pc = "writeArchive" -> 3 [] pc = "writeTop" -> 4
      [] pc = "writeLatest" -> 5 [] pc = "done" -> 6

(* C25: an invocation never goes back to a step it has taken: it issues one *)
(* read and one write per document, a read or write that fails or is        *)
(* refused ends a submission with the failure as its response, a refused    *)
(* write ends a rotation, and an invocation that has returned issues no     *)
(* further call.                                                            *)
NoAutomaticRetry ==
    [][/\ \A p \in Submitters :
            sub'[p] # sub[p] =>
                /\ \/ SubRank(sub'[p].pc) > SubRank(sub[p].pc)
                   \/ /\ sub[p].pc = "read" /\ sub'[p].pc = "read"
                      /\ \/ sub[p].latestFile = Null /\ sub'[p].latestFile # Null
                            /\ sub'[p].topFile = sub[p].topFile
                         \/ sub[p].topFile = Null /\ sub'[p].topFile # Null
                            /\ sub'[p].latestFile = sub[p].latestFile
                /\ (sub[p].pc = "writeLatest" /\ latest' # sub[p].newScore) =>
                      sub'[p].pc = "done" /\ sub'[p].statusCode = 500
                /\ (sub[p].pc = "writeTop" /\ top' = top) =>
                      sub'[p].pc = "done" /\ sub'[p].statusCode = 500
       /\ \A r \in Rotators :
            rot'[r] # rot[r] =>
                /\ RotRank(rot'[r].pc) > RotRank(rot[r].pc)
                /\ (rot[r].pc \in {"writeArchive", "writeTop", "writeLatest"}
                        /\ UNCHANGED <<top, latest, archive>>) =>
                      rot'[r].pc = "done" /\ rot'[r].statusCode = 500]_vars

\* a submission has returned the conflict on top.json and a rotation the
\* failure of one of its calls
ConflictReturnedSeen ==
    \E p \in Submitters, r \in Rotators :
        /\ sub[p].statusCode = 500
        /\ sub[p].details.code = 409
        /\ sub[p].details.path = "top"
        /\ rot[r].statusCode = 500
        /\ rot[r].details.code = 503

-----------------------------------------------------------------------------
(* C26: a submission changes only the entries and last_updated of top.json: *)
(* the season and season_start the last rotation stored are in the document *)
(* the submission writes, unchanged.                                        *)
SubmissionKeepsSeasonFields ==
    [][\A p \in Submitters :
        (MergeStored(p) /\ "season" \in DOMAIN top) =>
            /\ DOMAIN top' = DOMAIN top
            /\ top'.season = top.season
            /\ top'.season_start = top.season_start]_vars

\* the fields of the latest-pointer document
LatestShape == {"latest", "last_updated", "season"}

(* C27: every document written to latest.json, by a submission or by a      *)
(* rotation, has the one shape { latest, last_updated, season }, with       *)
(* latest an entry or null.                                                 *)
LatestHasOneShape ==
    [][latest' # latest => DOMAIN latest' = LatestShape]_vars

(* C28: a submission that returns an error has changed nothing: when its    *)
(* write of top.json fails, by conflict or by failure of the call,          *)
(* latest.json does not hold the entry of that submission.                  *)
FailedSubmissionLeavesNoTrace ==
    [][\A p \in Submitters :
        (WriteTopStep(p) /\ sub'[p].statusCode = 500) =>
            latest' # sub[p].newScore]_vars

(* C30: a submission that reports isNewRecord has its entry in the          *)
(* leaderboard it stored and reports a rank for it.                         *)
NewRecordIsRanked ==
    [][\A p \in Submitters :
        (MergeStored(p) /\ sub'[p].isNewRecord) =>
            /\ sub'[p].position # NoPosition
            /\ RankOf(top'.top, sub[p].newScore) # NoPosition]_vars

\* a rotation returns 200 only on a store no submission has written to: no
\* submission has succeeded before it and the archive it stored is empty
CompletionFindsNoEntry ==
    [][\A r \in Rotators :
        (rot[r].pc = "writeLatest" /\ rot'[r].statusCode = 200) =>
            /\ \A p \in Submitters : sub[p].statusCode # 200
            /\ archive'[rot[r].currentSeason].top_scores = <<>>]_vars

-----------------------------------------------------------------------------
\* when a rotation's reset of top.json is accepted there was no top.json,
\* and no submission holds a version of it
ResetFindsNoReader ==
    [][\A r \in Rotators :
        (RotResetStep(r) /\ rot'[r].pc = "writeLatest") =>
            /\ top = Missing
            /\ \A p \in Submitters : sub[p].topFile = Null]_vars

\* how many times entry x occurs in board
CountOf(board, x) == Cardinality({ i \in DOMAIN board : board[i] = x })

(* C32: an accepted submission stores every entry it keeps as it was, adds  *)
(* only its own entry, and drops a stored entry only from a full            *)
(* leaderboard and only when every entry kept is at least as good; so the   *)
(* best value of the leaderboard never increases from one submission to the *)
(* next.                                                                    *)
KeptEntriesUnchanged ==
    [][\A p \in Submitters :
        MergeStored(p) =>
            LET cur == top.top
                e == sub[p].newScore
                res == top'.top
            IN
            /\ \A i \in DOMAIN res :
                  CountOf(res, res[i]) <= CountOf(Append(cur, e), res[i])
            /\ \A j \in DOMAIN cur :
                  CountOf(res, cur[j]) < CountOf(cur, cur[j]) =>
                     /\ Len(res) = Capacity
                     /\ \A i \in DOMAIN res : res[i].ms <= cur[j].ms
            /\ cur # <<>> => res[1].ms <= cur[1].ms]_vars

\* two new entries lead a full leaderboard of stored entries of 1000 ms
NewEntriesLeadFullBoard ==
    \E p, q \in Submitters :
        /\ sub[p].statusCode = 200 /\ sub[q].statusCode = 200
        /\ top # Missing
        /\ Len(top.top) = Capacity
        /\ top.top[1] = sub[p].newScore /\ sub[p].newScore.ms = 80
        /\ top.top[2] = sub[q].newScore /\ sub[q].newScore.ms = 142
        /\ top.top[3].ms = 1000

(* C33: a submission reads latest.json and top.json before it writes        *)
(* anything, writes latest.json before top.json, and sends the write of     *)
(* top.json only after its write of latest.json was accepted.               *)
ReadsBeforeWritesLatestFirst ==
    [][\A p \in Submitters :
        /\ (sub[p].pc # "writeLatest" /\ sub'[p].pc = "writeLatest") =>
              /\ sub[p].pc = "read"
              /\ sub'[p].latestFile # Null /\ sub'[p].topFile # Null
              /\ UNCHANGED <<top, latest, archive>>
        /\ (sub[p].pc \in {"idle", "auth", "read"} /\ sub'[p] # sub[p]) =>
              UNCHANGED <<top, latest, archive>>
        /\ (sub[p].pc # "writeTop" /\ sub'[p].pc = "writeTop") =>
              /\ sub[p].pc = "writeLatest"
              /\ latest' = sub[p].newScore
              /\ top' = top
        /\ (sub[p].pc = "writeLatest" /\ sub'[p] # sub[p]
                /\ latest' # sub[p].newScore) =>
              /\ sub'[p].pc = "done"
              /\ top' = top
        /\ (sub[p].pc = "writeTop" /\ sub'[p] # sub[p]) => latest' = latest]_vars

\* one submission was refused at latest.json and never wrote top.json, which
\* holds the version the other submission stored
RefusedAtLatestSeen ==
    \E p, q \in Submitters :
        /\ sub[p].statusCode = 500
        /\ sub[p].details = [what |-> "update", path |-> "latest", code |-> 409]
        /\ sub[q].statusCode = 200
        /\ top.last_updated = q

====
